---- MODULE Spec2Model ----
(***************************************************************************)
(* A model of scripts/doc_converter.py: the four emitters of               *)
(* DocumentConverter (to_docx, to_xlsx, to_pptx, to_pdf) and main.         *)
(*                                                                         *)
(* Text is a sequence of one-character strings.  A status message is a     *)
(* sequence of tokens whose first token is the leading glyph: the check    *)
(* mark U+2705 or the cross mark U+274C of the source.                     *)
(***************************************************************************)
EXTENDS Integers, Sequences, FiniteSets, TLC

VARIABLES
    pc,          \* position in the function under execution
    content,     \* the content argument
    title,       \* the title argument
    output_path, \* the output_path argument
    template,    \* self.template, the resolved style record
    lines,       \* to_docx / to_xlsx: the lines being iterated
    idx,         \* position of the loop in lines / sections
    doc,         \* to_docx: the Document under construction
    ws,          \* to_xlsx: the cells written, <<row, column, value>>
    sections,    \* to_pptx: the chunks of the split
    slides,      \* to_pptx: the slides added, in order
    html_path,   \* to_pdf: the temporary file of that name: its state and data
    tried,       \* to_pdf: the backends invoked so far, with their outcomes
    result,      \* the message returned by the emitter
    args,        \* main: the parsed command line
    metadata,    \* main: the parsed --metadata value
    printed,     \* main: the lines printed
    exit_code    \* main: <<>> while running, then << the process exit code >>

vars == <<pc, content, title, output_path, template, lines, idx, doc, ws,
          sections, slides, html_path, tried, result, args, metadata, printed, exit_code>>

(***************************************************************************)
(* Bounds of the model.                                                    *)
(***************************************************************************)
MaxDocxLen == 5
MaxXlsxLen == 5
MaxPptxLen == 6
LongSlack == 2

(***************************************************************************)
(* Characters and the str methods the source uses.                         *)
(***************************************************************************)
NL == "\n"
TAB == "\t"
SP == " "

Min(S) == CHOOSE m \in S : \A n \in S : m <= n
Max(S) == CHOOSE m \in S : \A n \in S : n <= m

Strings(Alphabet, n) == UNION {[1..k -> Alphabet] : k \in 0..n}

Repeat(c, n) == [i \in 1..n |-> c]

IsSpace(c) == c \in {SP, TAB, NL}

NonSpace(s) == {i \in 1..Len(s) : ~IsSpace(s[i])}

\* str.rstrip()
RStrip(s) == IF NonSpace(s) = {} THEN <<>> ELSE SubSeq(s, 1, Max(NonSpace(s)))

\* str.strip()
Strip(s) ==
    IF NonSpace(s) = {} THEN <<>> ELSE SubSeq(s, Min(NonSpace(s)), Max(NonSpace(s)))

\* str.startswith(p)
StartsWith(s, p) == Len(s) >= Len(p) /\ SubSeq(s, 1, Len(p)) = p

\* c in s, for a one-character c
Contains(s, c) == \E i \in 1..Len(s) : s[i] = c

\* s[n:]
DropFirst(s, n) == SubSeq(s, n + 1, Len(s))

\* s[:n]
Prefix(s, n) == SubSeq(s, 1, IF Len(s) < n THEN Len(s) ELSE n)

\* s.find(sep, from): position of the leftmost occurrence at or after from, 0 if none
FindFrom(s, sep, from) ==
    LET hits == {i \in from..(Len(s) - Len(sep) + 1) : SubSeq(s, i, i + Len(sep) - 1) = sep}
    IN  IF hits = {} THEN 0 ELSE Min(hits)

RECURSIVE SplitFrom(_, _, _)
SplitFrom(s, sep, from) ==
    LET i == FindFrom(s, sep, from)
    IN  IF i = 0
        THEN <<SubSeq(s, from, Len(s))>>
        ELSE <<SubSeq(s, from, i - 1)>> \o SplitFrom(s, sep, i + Len(sep))

\* str.split(sep): leftmost non-overlapping occurrences of sep
Split(s, sep) == SplitFrom(s, sep, 1)

RECURSIVE Join(_, _)
\* sep.join(parts)
Join(parts, sep) ==
    IF parts = <<>> THEN <<>>
    ELSE IF Len(parts) = 1 THEN parts[1]
    ELSE parts[1] \o sep \o Join(Tail(parts), sep)

\* str.replace(old, ""): every leftmost non-overlapping occurrence removed
Remove(s, old) == Join(Split(s, old), <<>>)

(***************************************************************************)
(* The status messages.                                                    *)
(***************************************************************************)
SuccessGlyph == "U+2705"
FailGlyph == "U+274C"

(***************************************************************************)
(* DocumentConverter.TEMPLATES and __init__.                               *)
(***************************************************************************)
TEMPLATES ==
    [professional |-> [colors |-> <<"#1f4e79", "#2e75b6">>, font |-> "Calibri"],
     academic     |-> [colors |-> <<"#2f3e46", "#354f52">>, font |-> "Times New Roman"],
     executive    |-> [colors |-> <<"#2d3436", "#74b9ff">>, font |-> "Arial"],
     casual       |-> [colors |-> <<"#6c5ce7", "#a29bfe">>, font |-> "Arial"]]

\* self.TEMPLATES.get(template, self.TEMPLATES['professional'])
ResolveTemplate(name) ==
    IF name \in DOMAIN TEMPLATES THEN TEMPLATES[name] ELSE TEMPLATES["professional"]

TemplateNames == {"professional", "academic", "executive", "casual"}

Titles == {<<"D", "o", "c">>}
OutputPaths == {"out"}

NoSheet == [title |-> <<>>, cells |-> {}]
NoFile == [state |-> "none", data |-> <<>>]

\* The variables an emitter does not use.
Idle ==
    /\ lines = <<>> /\ idx = 0 /\ doc = <<>> /\ ws = NoSheet /\ sections = <<>>
    /\ slides = <<>> /\ html_path = NoFile /\ tried = <<>> /\ result = <<>>
    /\ args = [format |-> "none"] /\ metadata = [type |-> "None"]
    /\ printed = <<>> /\ exit_code = <<>>

(***************************************************************************)
(* to_docx                                                                 *)
(***************************************************************************)
DocxAlphabet == {"#", SP, "-", "*", "a", NL}

\* The metadata argument: None, a dict (with the author and subject keys it
\* holds), a JSON value that is no dict.
Metadatas ==
    {[type |-> "None"], [type |-> "list"], [type |-> "dict", author |-> "A"]}

\* md.get(key, default)
Get(md, key, default) == IF key \in DOMAIN md THEN md[key] ELSE default

\* doc.core_properties after lines 42-45
CoreProperties(md, t) ==
    IF md.type = "None"
    THEN [set |-> FALSE]
    ELSE [set |-> TRUE, author |-> Get(md, "author", "Generated"),
          title |-> t, subject |-> Get(md, "subject", "")]

\* DocxNode with the prefixes tested on the fully trimmed line.
DocxNodeStripped(raw) ==
    LET line == Strip(raw)
    IN  IF StartsWith(line, <<"#", SP>>)
        THEN <<[kind |-> "heading1", text |-> DropFirst(line, 2)]>>
        ELSE IF StartsWith(line, <<"#", "#", SP>>)
        THEN <<[kind |-> "heading2", text |-> DropFirst(line, 3)]>>
        ELSE IF StartsWith(line, <<"#", "#", "#", SP>>)
        THEN <<[kind |-> "heading3", text |-> DropFirst(line, 4)]>>
        ELSE IF StartsWith(line, <<"-", SP>>) \/ StartsWith(line, <<"*", SP>>)
        THEN <<[kind |-> "bullet", text |-> DropFirst(line, 2)]>>
        ELSE IF line # <<>>
        THEN <<[kind |-> "paragraph", text |-> line]>>
        ELSE <<>>

\* The node added for one line of the loop (none for a blank line).
DocxNode(raw) ==
    LET line == RStrip(raw)
    IN  IF StartsWith(line, <<"#", SP>>)
        THEN <<[kind |-> "heading1", text |-> DropFirst(line, 2)]>>
        ELSE IF StartsWith(line, <<"#", "#", SP>>)
        THEN <<[kind |-> "heading2", text |-> DropFirst(line, 3)]>>
        ELSE IF StartsWith(line, <<"#", "#", "#", SP>>)
        THEN <<[kind |-> "heading3", text |-> DropFirst(line, 4)]>>
        ELSE IF StartsWith(line, <<"-", SP>>) \/ StartsWith(line, <<"*", SP>>)
        THEN <<[kind |-> "bullet", text |-> DropFirst(line, 2)]>>
        ELSE IF Strip(line) # <<>>
        THEN <<[kind |-> "paragraph", text |-> line]>>
        ELSE <<>>

DocxMissing == <<FailGlyph, " python-docx not installed. Run: pip install python-docx">>
DocxSaved(path) == <<SuccessGlyph, " Word document saved: ", path>>
DocxError(e) == <<FailGlyph, " Error creating Word document: ", e>>

InitDocx ==
    /\ pc = "docx_import"
    /\ content \in Strings(DocxAlphabet, MaxDocxLen)
    /\ title \in Titles
    /\ output_path \in OutputPaths
    /\ template = ResolveTemplate("professional")
    /\ Idle

\* lines 31-36: the imports
to_docx_import ==
    /\ pc = "docx_import"
    /\ \E installed \in BOOLEAN :
        IF installed
        THEN pc' = "docx_create" /\ UNCHANGED result
        ELSE pc' = "docx_return" /\ result' = DocxMissing
    /\ UNCHANGED <<content, title, output_path, template, lines, idx, doc, ws,
                   sections, slides, html_path, tried, args, metadata, printed, exit_code>>

\* lines 39-52: Document(), the metadata, the title heading, the split
to_docx_create ==
    /\ pc = "docx_create"
    /\ \E md \in Metadatas :
        IF md.type = "list"
        THEN \* metadata.get raises AttributeError, caught at line 68
             /\ pc' = "docx_return"
             /\ result' = DocxError("AttributeError")
             /\ UNCHANGED <<doc, lines, idx>>
        ELSE /\ pc' = "docx_loop"
             /\ doc' = <<[kind |-> "title", text |-> title,
                           core_properties |-> CoreProperties(md, title)]>>
             /\ lines' = Split(content, <<NL>>)
             /\ idx' = 1
             /\ UNCHANGED result
    /\ UNCHANGED <<content, title, output_path, template, ws,
                   sections, slides, html_path, tried, args, metadata, printed, exit_code>>

\* lines 53-64: one iteration of the loop
to_docx_line ==
    /\ pc = "docx_loop"
    /\ idx <= Len(lines)
    /\ doc' = doc \o DocxNode(lines[idx])
    /\ idx' = idx + 1
    /\ UNCHANGED <<pc, content, title, output_path, template, lines, ws,
                   sections, slides, html_path, tried, result, args, metadata, printed, exit_code>>

\* lines 66-69: doc.save and the return
to_docx_save ==
    /\ pc = "docx_loop"
    /\ idx > Len(lines)
    /\ \E saved \in BOOLEAN :
        result' = IF saved THEN DocxSaved(output_path) ELSE DocxError("OSError")
    /\ pc' = "docx_return"
    /\ UNCHANGED <<content, title, output_path, template, lines, idx, doc, ws,
                   sections, slides, html_path, tried, args, metadata, printed, exit_code>>

NextDocx == to_docx_import \/ to_docx_create \/ to_docx_line \/ to_docx_save

SpecDocx == InitDocx /\ [][NextDocx]_vars

DocxLoopDone == pc \in {"docx_loop", "docx_return"} /\ idx > Len(lines)

\* The input lines, right-trimmed, blank ones left out, in input order.
DocxExpectedLines ==
    LET raw == Split(content, <<NL>>)
        trimmed == [i \in 1..Len(raw) |-> RStrip(raw[i])]
        NonBlank(l) == l # <<>>
    IN  SelectSeq(trimmed, NonBlank)

\* node is the element the rules give for the right-trimmed line l
DocxNodeIsFor(node, l) ==
    \/ node.kind = "heading1" /\ l = <<"#", SP>> \o node.text
    \/ node.kind = "heading2" /\ l = <<"#", "#", SP>> \o node.text
    \/ node.kind = "heading3" /\ l = <<"#", "#", "#", SP>> \o node.text
    \/ node.kind = "bullet" /\ (l = <<"-", SP>> \o node.text \/ l = <<"*", SP>> \o node.text)
    \/ /\ node.kind = "paragraph"
       /\ l = node.text
       /\ \A m \in {<<"#", SP>>, <<"#", "#", SP>>, <<"#", "#", "#", SP>>, <<"-", SP>>, <<"*", SP>>} :
            ~StartsWith(l, m)

\* C6: once to_docx has processed every line, the elements after the title
\* heading are exactly one per input line that is non-blank after
\* right-trimming, in input order, none for a blank line, and each element's
\* kind and text are those of the first matching prefix rule applied to the
\* right-trimmed line with its leading whitespace kept.
C6_DocxNodesPerNonBlankLine ==
    DocxLoopDone =>
        LET body == Tail(doc)
        IN  /\ doc[1].kind = "title" /\ doc[1].text = title
            /\ Len(body) = Len(DocxExpectedLines)
            /\ \A k \in 1..Len(body) : DocxNodeIsFor(body[k], DocxExpectedLines[k])

\* C6 witness: a finished run over content holding a blank line and a
\* bullet line: the blank line gave no element.
C6_Witness ==
    /\ DocxLoopDone
    /\ content = <<SP, NL, "-", SP, "a">>
    /\ Len(doc) = 2
    /\ doc[2] = [kind |-> "bullet", text |-> <<"a">>]

\* C6 witness of a level-3 heading.
C6_WitnessHeading3 ==
    /\ DocxLoopDone
    /\ \E k \in 1..Len(doc) : doc[k].kind = "heading3"

(***************************************************************************)
(* to_xlsx                                                                 *)
(***************************************************************************)
XlsxAlphabet == {"a", SP, NL, TAB, "|", ","}

\* Excel sheet name limit, title[:31]
SheetNameLimit == 31

\* line.split(d) with every segment trimmed
StrippedSegments(line, d) ==
    LET segs == Split(line, <<d>>)
    IN  [i \in 1..Len(segs) |-> Strip(segs[i])]

\* [c.strip() for c in line.split('|') if c.strip()]
PipeCells(line) ==
    LET NonEmpty(c) == c # <<>>
    IN  SelectSeq(StrippedSegments(line, "|"), NonEmpty)

\* XlsxCells with the pipe tested before the tab.
XlsxCellsPipeFirst(line) ==
    IF Contains(line, "|") THEN PipeCells(line)
    ELSE IF Contains(line, TAB) THEN StrippedSegments(line, TAB)
    ELSE IF Contains(line, ",") THEN StrippedSegments(line, ",")
    ELSE <<Strip(line)>>

\* lines 88-98: the values stored for one line, cell.strip() applied
XlsxCells(line) ==
    IF Contains(line, TAB) THEN StrippedSegments(line, TAB)
    ELSE IF Contains(line, "|") THEN PipeCells(line)
    ELSE IF Contains(line, ",") THEN StrippedSegments(line, ",")
    ELSE <<Strip(line)>>

\* XlsxLines with the blank lines left out.
XlsxLinesSkipBlank(c) ==
    LET NonBlank(l) == Strip(l) # <<>>
    IN  SelectSeq(Split(Strip(c), <<NL>>), NonBlank)

\* line 85: content.strip().split('\n')
XlsxLines(c) == Split(Strip(c), <<NL>>)

XlsxMissing == <<FailGlyph, " openpyxl not installed. Run: pip install openpyxl">>
XlsxSaved(path) == <<SuccessGlyph, " Excel spreadsheet saved: ", path>>
XlsxError(e) == <<FailGlyph, " Error creating Excel file: ", e>>

InitXlsx ==
    /\ pc = "xlsx_import"
    /\ content \in Strings(XlsxAlphabet, MaxXlsxLen)
    /\ title \in Titles
    /\ output_path \in OutputPaths
    /\ template = ResolveTemplate("professional")
    /\ Idle

\* lines 73-77: the imports
to_xlsx_import ==
    /\ pc = "xlsx_import"
    /\ \E installed \in BOOLEAN :
        IF installed
        THEN pc' = "xlsx_create" /\ UNCHANGED result
        ELSE pc' = "xlsx_return" /\ result' = XlsxMissing
    /\ UNCHANGED <<content, title, output_path, template, lines, idx, doc, ws,
                   sections, slides, html_path, tried, args, metadata, printed, exit_code>>

\* lines 80-85: Workbook(), the sheet title, the split
to_xlsx_create ==
    /\ pc = "xlsx_create"
    /\ ws' = [title |-> Prefix(title, SheetNameLimit), cells |-> {}]
    /\ lines' = XlsxLines(content)
    /\ idx' = 1
    /\ pc' = "xlsx_loop"
    /\ UNCHANGED <<content, title, output_path, template, doc,
                   sections, slides, html_path, tried, result, args, metadata, printed, exit_code>>

\* lines 86-102: one iteration of the loop: the cells of row idx, bold in row 1
to_xlsx_row ==
    /\ pc = "xlsx_loop"
    /\ idx <= Len(lines)
    /\ LET cells == XlsxCells(lines[idx])
       IN  ws' = [ws EXCEPT !.cells = @ \cup
                    {[row |-> idx, column |-> c, value |-> cells[c], bold |-> (idx = 1)] :
                        c \in 1..Len(cells)}]
    /\ idx' = idx + 1
    /\ UNCHANGED <<pc, content, title, output_path, template, lines, doc,
                   sections, slides, html_path, tried, result, args, metadata, printed, exit_code>>

\* lines 104-119: the column widths (a function of the cells, not kept here),
\* wb.save and the return
to_xlsx_save ==
    /\ pc = "xlsx_loop"
    /\ idx > Len(lines)
    /\ \E saved \in BOOLEAN :
        result' = IF saved THEN XlsxSaved(output_path) ELSE XlsxError("OSError")
    /\ pc' = "xlsx_return"
    /\ UNCHANGED <<content, title, output_path, template, lines, idx, doc, ws,
                   sections, slides, html_path, tried, args, metadata, printed, exit_code>>

NextXlsx == to_xlsx_import \/ to_xlsx_create \/ to_xlsx_row \/ to_xlsx_save

SpecXlsx == InitXlsx /\ [][NextXlsx]_vars

XlsxLoopDone == pc \in {"xlsx_loop", "xlsx_return"} /\ idx > Len(lines)

\* the row indices that hold at least one cell
RowsWritten == {c.row : c \in ws.cells}

\* the values of row r, by column
RowValues(r) ==
    LET cs == {c \in ws.cells : c.row = r}
    IN  [k \in 1..Cardinality(cs) |-> (CHOOSE c \in cs : c.column = k).value]

\* the number of lines of the content that are not blank
NonBlankLineCount ==
    LET raw == Split(content, <<NL>>)
    IN  Cardinality({i \in 1..Len(raw) : Strip(raw[i]) # <<>>})

\* the lines of the trimmed content: one more than its line breaks
TrimmedLineCount ==
    LET s == Strip(content)
    IN  1 + Cardinality({i \in 1..Len(s) : s[i] = NL})

TrimmedLine(k) == Split(Strip(content), <<NL>>)[k]

\* a line split on the pipe whose segments are all blank: it yields no cell
PipeLineWithoutCells(l) ==
    /\ ~Contains(l, TAB)
    /\ Contains(l, "|")
    /\ \A i \in 1..Len(l) : l[i] = "|" \/ IsSpace(l[i])

\* C5 as stated: the rows written are as many as the non-blank lines of the
\* content (none for empty content, none for a blank line between data lines).
C5_RowsEqualNonBlankLines ==
    XlsxLoopDone => Cardinality(RowsWritten) = NonBlankLineCount

\* C5 amended: every line of the trimmed content, blank ones included, takes
\* the row index of its position; a row is written for every such line
\* except a pipe line whose segments are all blank; a blank line between two
\* data lines gets a row of empty cells, and content with no non-blank line
\* yields one row holding one empty cell.
C5_RowPerTrimmedLine ==
    XlsxLoopDone =>
        /\ RowsWritten =
              {k \in 1..TrimmedLineCount : ~PipeLineWithoutCells(TrimmedLine(k))}
        /\ \A k \in 1..TrimmedLineCount :
              Strip(TrimmedLine(k)) = <<>> =>
                  /\ k \in RowsWritten
                  /\ \A c \in ws.cells : c.row = k => c.value = <<>>
        /\ NonBlankLineCount = 0 =>
              ws.cells = {[row |-> 1, column |-> 1, value |-> <<>>, bold |-> TRUE]}

\* C5 witness: a blank line between two data lines has been given row 2.
C5_Witness ==
    /\ XlsxLoopDone
    /\ content = <<"a", NL, NL, "a", ",">>
    /\ RowsWritten = {1, 2, 3}
    /\ NonBlankLineCount = 2

\* the segments of line l at delimiter d: the one way to cut l at every d
IsCutAt(segs, l, d) ==
    /\ Join(segs, <<d>>) = l
    /\ \A i \in 1..Len(segs) : ~Contains(segs[i], d)

\* C9: each line chooses its cells by the priority tab > pipe > comma >
\* whole line: a line with a tab is cut at its tabs only, else a line with a
\* pipe at its pipes with the blank segments dropped, else a line with a
\* comma at its commas, else it is one cell; every stored value is trimmed
\* and the empty segments of a tab or comma split are kept.
C9_DelimiterPriority ==
    XlsxLoopDone =>
        \A k \in 1..TrimmedLineCount :
            LET l == TrimmedLine(k)
                row == RowValues(k)
                d == IF Contains(l, TAB) THEN TAB
                     ELSE IF Contains(l, "|") THEN "|"
                     ELSE IF Contains(l, ",") THEN "," ELSE "none"
                segs == Split(l, <<d>>)
                Kept(i) == d # "|" \/ Strip(segs[i]) # <<>>
                kept == {i \in 1..Len(segs) : Kept(i)}
            IN  /\ \A i \in 1..Len(row) : row[i] = Strip(row[i])
                /\ d = "none" => row = <<Strip(l)>>
                /\ d # "none" =>
                      /\ IsCutAt(segs, l, d)
                      /\ Len(segs) = 1 + Cardinality({i \in 1..Len(l) : l[i] = d})
                      /\ Len(row) = Cardinality(kept)
                      /\ \A i \in kept :
                            row[Cardinality({j \in kept : j <= i})] = Strip(segs[i])

\* C9 witness: a line holding a tab, a pipe and a comma was cut at the tab,
\* and an empty segment of a comma split was kept.
C9_Witness ==
    /\ XlsxLoopDone
    /\ content = <<"|", TAB, ",", NL, ",">>
    /\ RowValues(1) = <<<<"|">>, <<",">>>>
    /\ RowValues(2) = <<<<>>, <<>>>>

(***************************************************************************)
(* to_pptx                                                                 *)
(***************************************************************************)
PptxAlphabet == {"#", SP, NL, "a"}

\* [:500], the longest body text placed on a slide
BodyLimit == 500

\* the separator of line 138
SectionSep == <<NL, "#", "#", SP>>

H2 == <<"#", "#", SP>>

Overview == <<"O", "v", "e", "r", "v", "i", "e", "w">>

\* Truncate cutting one character late.
TruncateLate(s) == Prefix(s, BodyLimit + 1)

\* s[:500]
Truncate(s) == Prefix(s, BodyLimit)

\* lines 152-163: the slide of a titled section
SectionSlide(section) ==
    LET ls == Split(section, <<NL>>)
        slide_title == Strip(Remove(ls[1], H2))
        slide_content == Strip(Join(Tail(ls), <<NL>>))
    IN  [layout |-> "bullet", title |-> slide_title, text |-> Truncate(slide_content)]

\* SectionSlides with chunk 0 always taken as the overview candidate.
SectionSlidesFirstAbsorbed(i, section) ==
    IF i = 0
    THEN IF Strip(section) # <<>> /\ ~StartsWith(section, <<"#", SP>>)
         THEN <<[layout |-> "bullet", title |-> Overview,
                 text |-> Truncate(Strip(section))]>>
         ELSE <<>>
    ELSE <<SectionSlide(section)>>

\* lines 140-163: the slides one iteration adds for chunk i (counted from 0)
SectionSlides(i, section) ==
    IF i = 0 /\ ~StartsWith(section, H2)
    THEN IF Strip(section) # <<>> /\ ~StartsWith(section, <<"#", SP>>)
         THEN <<[layout |-> "bullet", title |-> Overview,
                 text |-> Truncate(Strip(section))]>>
         ELSE <<>>
    ELSE <<SectionSlide(section)>>

PptxMissing == <<FailGlyph, " python-pptx not installed. Run: pip install python-pptx">>
PptxSaved(path) == <<SuccessGlyph, " PowerPoint saved: ", path>>
PptxError(e) == <<FailGlyph, " Error creating PowerPoint: ", e>>

\* Bodies about as long as the limit: a "#", then "a"s, blanks around.
LongBodies ==
    {lead \o <<"#">> \o Repeat("a", n) \o trail :
        lead \in {<<>>, <<SP>>},
        n \in (BodyLimit - 2)..(BodyLimit + LongSlack - 1),
        trail \in {<<>>, <<SP>>}}

\* A long body alone, after an intro and a section title, after a leading "## ".
LongContents ==
    {pre \o b :
        pre \in {<<>>, <<"a", NL, "#", "#", SP, "a", NL>>, <<"#", "#", SP, "a", NL>>},
        b \in LongBodies}

InitPptx ==
    /\ pc = "pptx_import"
    /\ content \in Strings(PptxAlphabet, MaxPptxLen) \cup LongContents
    /\ title \in Titles
    /\ output_path \in OutputPaths
    /\ template = ResolveTemplate("professional")
    /\ Idle

\* lines 123-127: the imports
to_pptx_import ==
    /\ pc = "pptx_import"
    /\ \E installed \in BOOLEAN :
        IF installed
        THEN pc' = "pptx_create" /\ UNCHANGED result
        ELSE pc' = "pptx_return" /\ result' = PptxMissing
    /\ UNCHANGED <<content, title, output_path, template, lines, idx, doc, ws,
                   sections, slides, html_path, tried, args, metadata, printed, exit_code>>

\* lines 130-138: Presentation(), the title slide, the split
to_pptx_create ==
    /\ pc = "pptx_create"
    /\ slides' = <<[layout |-> "title", title |-> title, text |-> <<>>]>>
    /\ sections' = Split(content, SectionSep)
    /\ idx' = 0
    /\ pc' = "pptx_loop"
    /\ UNCHANGED <<content, title, output_path, template, lines, doc, ws,
                   html_path, tried, result, args, metadata, printed, exit_code>>

\* lines 140-163: one iteration of the loop, i = idx
to_pptx_section ==
    /\ pc = "pptx_loop"
    /\ idx < Len(sections)
    /\ slides' = slides \o SectionSlides(idx, sections[idx + 1])
    /\ idx' = idx + 1
    /\ UNCHANGED <<pc, content, title, output_path, template, lines, doc, ws,
                   sections, html_path, tried, result, args, metadata, printed, exit_code>>

\* lines 165-168: prs.save and the return
to_pptx_save ==
    /\ pc = "pptx_loop"
    /\ idx >= Len(sections)
    /\ \E saved \in BOOLEAN :
        result' = IF saved THEN PptxSaved(output_path) ELSE PptxError("OSError")
    /\ pc' = "pptx_return"
    /\ UNCHANGED <<content, title, output_path, template, lines, idx, doc, ws,
                   sections, slides, html_path, tried, args, metadata, printed, exit_code>>

NextPptx == to_pptx_import \/ to_pptx_create \/ to_pptx_section \/ to_pptx_save

SpecPptx == InitPptx /\ [][NextPptx]_vars

PptxLoopDone ==
    pc \in {"pptx_loop", "pptx_return"} /\ sections # <<>> /\ idx >= Len(sections)

\* the places of the separator in the content
SepPlaces ==
    {i \in 1..Len(content) :
        i + 3 <= Len(content) /\ SubSeq(content, i, i + 3) = SectionSep}

\* chunk j of the content, counted from 1: what lies between two separators
Chunk(j) ==
    LET Place(n) == CHOOSE i \in SepPlaces : Cardinality({m \in SepPlaces : m < i}) = n - 1
        from == IF j = 1 THEN 1 ELSE Place(j - 1) + 4
        to == IF j = Cardinality(SepPlaces) + 1 THEN Len(content) ELSE Place(j) - 1
    IN  SubSeq(content, from, to)

\* the first line of a chunk and what follows its first line break
FirstLine(c) ==
    IF Contains(c, NL) THEN SubSeq(c, 1, Min({i \in 1..Len(c) : c[i] = NL}) - 1) ELSE c

AfterFirstLine(c) ==
    IF Contains(c, NL) THEN DropFirst(c, Min({i \in 1..Len(c) : c[i] = NL})) ELSE <<>>

\* the first chunk qualifies as the overview: non-empty once trimmed, no "# " in front
OverviewCandidate == Strip(Chunk(1)) # <<>> /\ ~StartsWith(Chunk(1), <<"#", SP>>)

\* C7 as stated: the first chunk gives the slide titled "Overview" or no
\* slide, also when the content begins with "## "; the slides are the title
\* slide, the optional overview slide, one slide per later chunk.
C7_FirstChunkOnlyOverview ==
    PptxLoopDone =>
        /\ Len(slides) = 1 + (IF OverviewCandidate THEN 1 ELSE 0) + Cardinality(SepPlaces)
        /\ OverviewCandidate => slides[2].title = Overview

\* C7 amended: the first chunk gives the slide titled "Overview" when it
\* does not begin with "## ", is non-empty once trimmed and does not begin
\* with "# "; it gives a titled section slide when it begins with "## "
\* (content beginning with "## " does start a section slide, titled by its
\* first line with "## " removed); otherwise it gives no slide.  The slides
\* are the title slide, the first chunk's slide if any, then one slide per
\* later chunk in split order.
C7_FirstChunkOverviewOrSection ==
    PptxLoopDone =>
        LET titled == StartsWith(content, H2)
            overview == ~titled /\ OverviewCandidate
            k == IF titled \/ overview THEN 1 ELSE 0
        IN  /\ slides[1] = [layout |-> "title", title |-> title, text |-> <<>>]
            /\ Len(slides) = 1 + k + Cardinality(SepPlaces)
            /\ overview => slides[2].title = Overview
            /\ titled => slides[2].title = Strip(Remove(FirstLine(Chunk(1)), H2))
            /\ \A j \in 2..(Cardinality(SepPlaces) + 1) :
                  slides[k + j].title = Strip(Remove(FirstLine(Chunk(j)), H2))

\* C7 witness: content beginning with "## " has given a section slide.
C7_Witness ==
    /\ PptxLoopDone
    /\ content = <<"#", "#", SP, "a">>
    /\ Len(slides) = 2
    /\ slides[2].title = <<"a">>

\* the trimmed body of the slide at place p, before any cut
FullBody(p) ==
    LET titled == StartsWith(content, H2)
        k == Len(slides) - 1 - Cardinality(SepPlaces)
    IN  IF p = 2 /\ k = 1 /\ ~titled
        THEN Strip(Chunk(1))
        ELSE Strip(AfterFirstLine(Chunk(p - k)))

\* C10: the body text of every slide after the title slide is at most 500
\* characters: a trimmed body longer than that is cut to its first 500
\* characters with nothing appended, a shorter one is placed unchanged.
C10_BodyAtMostLimit ==
    PptxLoopDone =>
        \A p \in 2..Len(slides) :
            /\ Len(slides[p].text) <= BodyLimit
            /\ IF Len(FullBody(p)) > BodyLimit
               THEN slides[p].text = SubSeq(FullBody(p), 1, BodyLimit)
               ELSE slides[p].text = FullBody(p)

\* C10 witness: a section body of more than 500 characters was cut to 500.
C10_Witness ==
    /\ PptxLoopDone
    /\ Len(slides) = 3
    /\ slides[2].title = Overview
    /\ Len(FullBody(3)) > BodyLimit
    /\ Len(slides[3].text) = BodyLimit

\* C10 witness of an overview body of more than 500 characters cut to 500.
C10_WitnessOverview ==
    /\ PptxLoopDone
    /\ Len(slides) = 2
    /\ slides[2].title = Overview
    /\ Len(Strip(content)) > BodyLimit
    /\ Len(slides[2].text) = BodyLimit

(***************************************************************************)
(* to_pdf                                                                  *)
(*                                                                         *)
(* html_path stands for the file NamedTemporaryFile(delete=False) creates: *)
(* it is "none" before line 199, "exists" from then on and "deleted" once  *)
(* Path(html_path).unlink() has run.  unlink of the file just created      *)
(* succeeds.  tried records each backend reached, with what it did:        *)
(*   "ok"          return code 0 / write_pdf returned                      *)
(*   "nonzero"     the process ran and exited non-zero                     *)
(*   "unavailable" FileNotFoundError / ImportError                         *)
(*   "timeout"     subprocess.TimeoutExpired after timeout=30              *)
(*   "error"       any other exception                                     *)
(***************************************************************************)
PdfContents == {<<>>, <<"#", SP, "a">>}
PdfTitles == {<<"D", "o", "c">>, <<"R">>}

ProcessOutcomes == {"ok", "nonzero", "unavailable", "timeout", "error"}
LibraryOutcomes == {"ok", "unavailable", "error"}

BackendOrder == <<"wkhtmltopdf", "weasyprint", "pandoc">>

PdfSaved(path) == <<SuccessGlyph, " PDF saved: ", path>>
PandocError(stderr) == <<FailGlyph, " Pandoc error: ", stderr>>
NoConverter ==
    <<FailGlyph, " No PDF converter found. Install ", "wkhtmltopdf", ", ",
      "weasyprint", ", or ", "pandoc", ".">>
MarkdownMissing == <<FailGlyph, " markdown not installed. Run: pip install markdown">>
PdfError(e) == <<FailGlyph, " Error creating PDF: ", e>>

\* str(e) of the exception an outcome raises
Raised(outcome) == IF outcome = "timeout" THEN "TimeoutExpired" ELSE "OSError"

\* lines 178-197: the page; markdown.markdown is the library's rendering
HtmlContent(t, tpl, c) ==
    [title |-> t, font |-> tpl.font, heading |-> tpl.colors[1],
     border |-> tpl.colors[2], body |-> [markdown |-> c]]

\* AfterWkhtmltopdf going on to weasyprint after return code 0.
AfterWkhtmltopdfNoReturn(outcome, path) ==
    IF outcome \in {"ok", "nonzero", "unavailable"}
    THEN [to |-> "pdf_weasyprint", unlink |-> FALSE, result |-> <<>>]
    ELSE [to |-> "pdf_return", unlink |-> FALSE, result |-> PdfError(Raised(outcome))]

\* lines 204-213 and, for what line 212 does not catch, 240-241
AfterWkhtmltopdf(outcome, path) ==
    IF outcome = "ok"
    THEN [to |-> "pdf_return", unlink |-> TRUE, result |-> PdfSaved(path)]
    ELSE IF outcome \in {"nonzero", "unavailable"}
    THEN [to |-> "pdf_weasyprint", unlink |-> FALSE, result |-> <<>>]
    ELSE [to |-> "pdf_return", unlink |-> FALSE, result |-> PdfError(Raised(outcome))]

\* lines 216-222 and, for what line 221 does not catch, 240-241
AfterWeasyprint(outcome, path) ==
    IF outcome = "ok"
    THEN [to |-> "pdf_return", unlink |-> TRUE, result |-> PdfSaved(path)]
    ELSE IF outcome = "unavailable"
    THEN [to |-> "pdf_pandoc", unlink |-> FALSE, result |-> <<>>]
    ELSE [to |-> "pdf_return", unlink |-> FALSE, result |-> PdfError(Raised(outcome))]

\* AfterPandoc reporting a missing pandoc as a pandoc error.
AfterPandocOneMessage(outcome, path) ==
    IF outcome = "ok"
    THEN [to |-> "pdf_return", unlink |-> TRUE, result |-> PdfSaved(path)]
    ELSE IF outcome \in {"nonzero", "unavailable"}
    THEN [to |-> "pdf_return", unlink |-> TRUE, result |-> PandocError("stderr")]
    ELSE [to |-> "pdf_return", unlink |-> FALSE, result |-> PdfError(Raised(outcome))]

\* lines 225-236 and, for what line 234 does not catch, 240-241
AfterPandoc(outcome, path) ==
    IF outcome = "ok"
    THEN [to |-> "pdf_return", unlink |-> TRUE, result |-> PdfSaved(path)]
    ELSE IF outcome = "nonzero"
    THEN [to |-> "pdf_return", unlink |-> TRUE, result |-> PandocError("stderr")]
    ELSE IF outcome = "unavailable"
    THEN [to |-> "pdf_return", unlink |-> TRUE, result |-> NoConverter]
    ELSE [to |-> "pdf_return", unlink |-> FALSE, result |-> PdfError(Raised(outcome))]

InitPdf ==
    /\ pc = "pdf_import"
    /\ content \in PdfContents
    /\ title \in PdfTitles
    /\ output_path \in OutputPaths
    /\ template \in {ResolveTemplate(n) : n \in TemplateNames \cup {"unknown"}}
    /\ Idle

\* lines 172-175 and 238-239: the imports
to_pdf_import ==
    /\ pc = "pdf_import"
    /\ \E installed \in BOOLEAN :
        IF installed
        THEN pc' = "pdf_html" /\ UNCHANGED result
        ELSE pc' = "pdf_return" /\ result' = MarkdownMissing
    /\ UNCHANGED <<content, title, output_path, template, lines, idx, doc, ws,
                   sections, slides, html_path, tried, args, metadata, printed, exit_code>>

\* lines 178-201: the page is rendered and written to the temporary file
to_pdf_html ==
    /\ pc = "pdf_html"
    /\ \E outcome \in {"ok", "markdown_error", "write_error"} :
        IF outcome = "ok"
        THEN /\ html_path' = [state |-> "exists",
                              data |-> HtmlContent(title, template, content)]
             /\ pc' = "pdf_wkhtmltopdf"
             /\ UNCHANGED result
        ELSE IF outcome = "markdown_error"
        THEN /\ pc' = "pdf_return"
             /\ result' = PdfError("ValueError")
             /\ UNCHANGED html_path
        ELSE \* f.write raises after the file was created
             /\ html_path' = [state |-> "exists", data |-> <<>>]
             /\ pc' = "pdf_return"
             /\ result' = PdfError("OSError")
    /\ UNCHANGED <<content, title, output_path, template, lines, idx, doc, ws,
                   sections, slides, tried, args, metadata, printed, exit_code>>

\* what a backend's handler does with the outcome of the backend
PdfStep(backend, outcome, after) ==
    /\ tried' = Append(tried, [backend |-> backend, outcome |-> outcome])
    /\ pc' = after.to
    /\ html_path' = IF after.unlink THEN [html_path EXCEPT !.state = "deleted"]
                    ELSE html_path
    /\ result' = after.result
    /\ UNCHANGED <<content, title, output_path, template, lines, idx, doc, ws,
                   sections, slides, args, metadata, printed, exit_code>>

\* lines 204-213
to_pdf_wkhtmltopdf ==
    /\ pc = "pdf_wkhtmltopdf"
    /\ \E outcome \in ProcessOutcomes :
        PdfStep("wkhtmltopdf", outcome, AfterWkhtmltopdf(outcome, output_path))

\* lines 216-222
to_pdf_weasyprint ==
    /\ pc = "pdf_weasyprint"
    /\ \E outcome \in LibraryOutcomes :
        PdfStep("weasyprint", outcome, AfterWeasyprint(outcome, output_path))

\* lines 225-236
to_pdf_pandoc ==
    /\ pc = "pdf_pandoc"
    /\ \E outcome \in ProcessOutcomes :
        PdfStep("pandoc", outcome, AfterPandoc(outcome, output_path))

NextPdf ==
    \/ to_pdf_import
    \/ to_pdf_html
    \/ to_pdf_wkhtmltopdf
    \/ to_pdf_weasyprint
    \/ to_pdf_pandoc

SpecPdf == InitPdf /\ [][NextPdf]_vars

IsSuccess(msg) == msg # <<>> /\ msg[1] = SuccessGlyph

LastTried == tried[Len(tried)]

\* C1 as stated: once the temporary file has been created and handed to the
\* backends, it has been deleted when to_pdf returns, whichever backend
\* succeeded, failed (non-zero exit, raised error, timeout) or was unavailable.
C1_TempFileDeletedOnReturn ==
    (pc = "pdf_return" /\ html_path.state # "none" /\ tried # <<>>) =>
        html_path.state = "deleted"

\* C2 as stated: a backend that fails or is unavailable is followed by the
\* next one, so a failure of the rendering step is returned only after all
\* three backends have been attempted.
C2_FailureOnlyAfterAllThree ==
    (pc = "pdf_return" /\ tried # <<>> /\ ~IsSuccess(result)) => Len(tried) = 3

\* C3: the backends are attempted in the order wkhtmltopdf, weasyprint,
\* pandoc; one is attempted only if none before it succeeded, none is
\* invoked after a success, and after a success to_pdf returns the success
\* message.
C3_FixedOrderFirstSuccessWins ==
    /\ Len(tried) <= 3
    /\ \A i \in 1..Len(tried) : tried[i].backend = BackendOrder[i]
    /\ \A i \in 1..(Len(tried) - 1) : tried[i].outcome # "ok"
    /\ (tried # <<>> /\ LastTried.outcome = "ok") =>
          /\ pc = "pdf_return"
          /\ result = <<SuccessGlyph, " PDF saved: ", output_path>>

\* C3 witness: weasyprint succeeded after wkhtmltopdf exited non-zero, and
\* pandoc was not invoked.
C3_Witness ==
    /\ pc = "pdf_return"
    /\ tried = <<[backend |-> "wkhtmltopdf", outcome |-> "nonzero"],
                 [backend |-> "weasyprint", outcome |-> "ok"]>>
    /\ IsSuccess(result)

\* msg names the three backends and carries the installation hint
NamesAllBackends(msg) ==
    /\ \A b \in {"wkhtmltopdf", "weasyprint", "pandoc"} : \E i \in 1..Len(msg) : msg[i] = b
    /\ \E i \in 1..Len(msg) : msg[i] = " No PDF converter found. Install "

\* C8 as stated: when all three backends were attempted and none produced a
\* PDF, the failure message names all three with an installation hint.
C8_ExhaustionNamesAllBackends ==
    (/\ pc = "pdf_return"
     /\ Len(tried) = 3
     /\ \A i \in 1..3 : tried[i].outcome # "ok") => NamesAllBackends(result)

\* C8 amended: when to_pdf reaches pandoc and pandoc is not installed, it
\* returns the one failure message that names all three backends with an
\* installation hint, and in no other case; when pandoc runs and exits
\* non-zero the message is "Pandoc error: <stderr>", and when a backend
\* raises any other error, a timeout included, it is "Error creating PDF".
C8_MissingPandocNamesAllBackends ==
    (pc = "pdf_return" /\ tried # <<>> /\ ~IsSuccess(result)) =>
        /\ result[1] = FailGlyph
        /\ NamesAllBackends(result) <=>
              (LastTried.backend = "pandoc" /\ LastTried.outcome = "unavailable")
        /\ (LastTried.backend = "pandoc" /\ LastTried.outcome = "nonzero") =>
              (result[2] = " Pandoc error: " /\ Len(result) = 3)
        /\ LastTried.outcome \in {"timeout", "error"} =>
              (result[2] = " Error creating PDF: " /\ Len(result) = 3)

\* C8 witness: no backend was available and the message names all three.
C8_Witness ==
    /\ pc = "pdf_return"
    /\ Len(tried) = 3
    /\ \A i \in 1..3 : tried[i].outcome = "unavailable"
    /\ NamesAllBackends(result)
    /\ html_path.state = "deleted"

(***************************************************************************)
(* main                                                                    *)
(*                                                                         *)
(* args is what parse_args returned.  input_file is "missing" (no such     *)
(* path), "unreadable" (the path exists and read_text raises: a directory, *)
(* bytes that do not decode) or "text".  An exception main does not catch  *)
(* ends the interpreter with exit code 1 and prints nothing to stdout.     *)
(***************************************************************************)
Formats == {"docx", "xlsx", "pptx", "pdf"}

\* the --metadata strings: absent, empty, not JSON, an object, an array
MetadataArgs == {"None", "", "{bad", "{\"author\": \"A\"}", "[1]"}

\* the -o strings: absent, empty, a path
OutputArgs == {"None", "", "o.bin"}

MainContents == {<<>>, <<"#", SP, "a">>}

\* truth value of an optional string argument
IsSet(arg) == arg \notin {"None", ""}

\* json.loads(arg): the value, or the JSONDecodeError raised
JsonLoads(arg) ==
    IF arg = "{\"author\": \"A\"}" THEN [type |-> "dict", author |-> "A"]
    ELSE IF arg = "[1]" THEN [type |-> "list"]
    ELSE [type |-> "JSONDecodeError"]

\* str(input_path.with_suffix('.' + format)) for the input path "input.md"
WithSuffix(format) ==
    IF format = "docx" THEN "input.docx"
    ELSE IF format = "xlsx" THEN "input.xlsx"
    ELSE IF format = "pptx" THEN "input.pptx"
    ELSE "input.pdf"

InputNotFound(name) == <<FailGlyph, " Input file not found: ", name>>
InvalidMetadata == <<FailGlyph, " Invalid metadata JSON">>

\* what to_docx can return for this metadata: lines 36, 67, 69
ToDocxReturns(md, path) ==
    {DocxMissing} \cup
    (IF md.type = "list"
     THEN {DocxError("AttributeError")}
     ELSE {DocxSaved(path), DocxError("OSError")})

\* what to_xlsx can return: lines 77, 117, 119
ToXlsxReturns(path) == {XlsxMissing, XlsxSaved(path), XlsxError("OSError")}

\* what to_pptx can return: lines 127, 166, 168
ToPptxReturns(path) == {PptxMissing, PptxSaved(path), PptxError("OSError")}

\* ExitCode with the test of the glyph left out.
ExitCodeZero(msg) == 0

\* line 294: 0 if result.startswith(the check mark) else 1
ExitCode(msg) == IF StartsWith(msg, <<SuccessGlyph>>) THEN 0 ELSE 1

InitMain ==
    /\ pc = "main_input"
    /\ args \in [format : Formats,
                 input_file : {"missing", "unreadable", "text"},
                 text : MainContents,
                 output : OutputArgs,
                 title : {<<"D", "o", "c">>},
                 template : {"professional", "casual"},
                 metadata : MetadataArgs]
    /\ content = <<>> /\ title = <<>> /\ output_path = "None"
    /\ template = ResolveTemplate("professional")
    /\ lines = <<>> /\ idx = 0 /\ doc = <<>> /\ ws = NoSheet /\ sections = <<>>
    /\ slides = <<>> /\ html_path = NoFile /\ tried = <<>> /\ result = <<>>
    /\ metadata = [type |-> "None"]
    /\ printed = <<>> /\ exit_code = <<>>

\* lines 259-270: the input file is checked and read, the output path chosen
main_read ==
    /\ pc = "main_input"
    /\ IF args.input_file = "missing"
       THEN /\ printed' = Append(printed, InputNotFound(args.input_file))
            /\ exit_code' = <<1>>
            /\ pc' = "exited"
            /\ UNCHANGED <<content, output_path>>
       ELSE IF args.input_file = "unreadable"
       THEN /\ exit_code' = <<1>>
            /\ pc' = "exited"
            /\ UNCHANGED <<content, output_path, printed>>
       ELSE /\ content' = args.text
            /\ output_path' = IF IsSet(args.output) THEN args.output
                              ELSE WithSuffix(args.format)
            /\ pc' = "main_metadata"
            /\ UNCHANGED <<printed, exit_code>>
    /\ UNCHANGED <<title, template, lines, idx, doc, ws, sections, slides,
                   html_path, tried, result, args, metadata>>

\* lines 273-282: the metadata is parsed, the converter constructed
main_metadata ==
    /\ pc = "main_metadata"
    /\ IF IsSet(args.metadata) /\ JsonLoads(args.metadata).type = "JSONDecodeError"
       THEN /\ printed' = Append(printed, InvalidMetadata)
            /\ exit_code' = <<1>>
            /\ pc' = "exited"
            /\ UNCHANGED <<metadata, template, title>>
       ELSE /\ metadata' = IF IsSet(args.metadata) THEN JsonLoads(args.metadata)
                           ELSE [type |-> "None"]
            /\ template' = ResolveTemplate(args.template)
            /\ title' = args.title
            /\ pc' = "main_convert"
            /\ UNCHANGED <<printed, exit_code>>
    /\ UNCHANGED <<content, output_path, lines, idx, doc, ws, sections, slides,
                   html_path, tried, result, args>>

\* the call of an emitter that is modelled by what it can return
MainCall(format, returns) ==
    /\ pc = "main_convert"
    /\ args.format = format
    /\ result' \in returns
    /\ pc' = "main_print"
    /\ UNCHANGED <<content, title, output_path, template, lines, idx, doc, ws,
                   sections, slides, html_path, tried, args, metadata, printed, exit_code>>

\* lines 284-285
main_to_docx == MainCall("docx", ToDocxReturns(metadata, output_path))

\* lines 286-287
main_to_xlsx == MainCall("xlsx", ToXlsxReturns(output_path))

\* lines 288-289
main_to_pptx == MainCall("pptx", ToPptxReturns(output_path))

\* lines 290-291: to_pdf is entered; its steps are those of NextPdf
main_to_pdf ==
    /\ pc = "main_convert"
    /\ args.format = "pdf"
    /\ pc' = "pdf_import"
    /\ UNCHANGED <<content, title, output_path, template, lines, idx, doc, ws,
                   sections, slides, html_path, tried, result, args, metadata,
                   printed, exit_code>>

\* lines 293-294: the result is printed and the process exits
main_exit ==
    /\ \/ pc = "main_print"
       \/ pc = "pdf_return" /\ args.format = "pdf"
    /\ printed' = Append(printed, result)
    /\ exit_code' = <<ExitCode(result)>>
    /\ pc' = "exited"
    /\ UNCHANGED <<content, title, output_path, template, lines, idx, doc, ws,
                   sections, slides, html_path, tried, result, args, metadata>>

NextMain ==
    \/ main_read
    \/ main_metadata
    \/ main_to_docx
    \/ main_to_xlsx
    \/ main_to_pptx
    \/ main_to_pdf
    \/ NextPdf
    \/ main_exit

SpecMain == InitMain /\ [][NextMain]_vars

\* the conversion succeeded: the emitter called returned its "saved" message
ConversionSucceeded ==
    /\ pc = "exited"
    /\ \/ args.format = "docx" /\ result = <<SuccessGlyph, " Word document saved: ", output_path>>
       \/ args.format = "xlsx" /\ result = <<SuccessGlyph, " Excel spreadsheet saved: ", output_path>>
       \/ args.format = "pptx" /\ result = <<SuccessGlyph, " PowerPoint saved: ", output_path>>
       \/ /\ args.format = "pdf"
          /\ tried # <<>>
          /\ LastTried.outcome = "ok"

\* C4: a run of main exits with code 0 exactly when the conversion succeeded,
\* the printed result then starting with the success glyph, and with code 1
\* on every failure: missing input file, invalid metadata JSON, missing
\* output library, emitter-level error.
C4_ExitCodeReflectsSuccess ==
    /\ pc = "exited" <=> exit_code # <<>>
    /\ pc = "exited" =>
        /\ exit_code \in {<<0>>, <<1>>}
        /\ exit_code = <<0>> <=> ConversionSucceeded
        /\ exit_code = <<0>> => (printed = <<result>> /\ result[1] = SuccessGlyph)
        /\ exit_code = <<1>> => \A i \in 1..Len(printed) : printed[i][1] = FailGlyph
        /\ args.input_file = "missing" => exit_code = <<1>>
        /\ (args.input_file = "text" /\ args.metadata \in {"{bad"}) => exit_code = <<1>>
        /\ result \in {DocxMissing, XlsxMissing, PptxMissing, MarkdownMissing} =>
              exit_code = <<1>>
        /\ (result # <<>> /\ result[2] \in {" Error creating Word document: ",
                " Error creating Excel file: ", " Error creating PowerPoint: ",
                " Error creating PDF: ", " Pandoc error: "}) => exit_code = <<1>>

\* C4 witness: a pdf run in which pandoc exited non-zero has exited with 1.
C4_Witness ==
    /\ pc = "exited"
    /\ args.format = "pdf"
    /\ Len(tried) = 3
    /\ LastTried.outcome = "nonzero"
    /\ exit_code = <<1>>
    /\ printed = <<result>>

\* C4 witness of a successful run exiting with 0.
C4_WitnessSuccess ==
    /\ pc = "exited"
    /\ args.format = "docx"
    /\ exit_code = <<0>>
    /\ printed = <<DocxSaved(output_path)>>

====
